---------------------------- MODULE Spec2Model ----------------------------
(***************************************************************************)
(* Model of the dummyMCP core: extractJsonFromLLMResponse and buildQuery   *)
(* (src/src/utils.ts) and the tool handlers that compose them              *)
(* (src/src/index.ts).                                                     *)
(*                                                                         *)
(* Text is a sequence of one-character strings.  A JavaScript scalar is a  *)
(* record [t, s]: t is its typeof-like tag and s the characters of         *)
(* String(value), so that template interpolation of v is v.s.              *)
(* A JavaScript object is the sequence of its own entries [key, value] in  *)
(* Object.entries order (keys are text, pairwise distinct).                *)
(***************************************************************************)
EXTENDS Integers, Sequences, FiniteSets, TLC

VARIABLES
    bstage, tableName, args, limit, built,      \* one call of buildQuery
    estage, text, origin, extracted,            \* one call of extractJsonFromLLMResponse
    pc, tool, rawOutput, json, builderCalls, executorCalls, responses  \* one tool run

vars == <<bstage, tableName, args, limit, built,
          estage, text, origin, extracted,
          pc, tool, rawOutput, json, builderCalls, executorCalls, responses>>

buildVars   == <<bstage, tableName, args, limit, built>>
extractVars == <<estage, text, origin, extracted>>
flowVars    == <<pc, tool, rawOutput, json, builderCalls, executorCalls, responses>>

----------------------------------------------------------------------------
(* Bounds of the explored inputs.                                          *)

MaxFilterLen == 2      \* entries in a filter mapping handed to buildQuery
MaxFields    == 2      \* members of a JSON object placed in a text
MaxPad       == 1      \* whitespace characters around a text or a block

----------------------------------------------------------------------------
(* Text constants.  The grave accent (U+0060) cannot be written inside a   *)
(* TLA+ string, so that one character is the element BT.                   *)

BT == "BACKTICK"

S_country_name == <<"c","o","u","n","t","r","y","_","n","a","m","e">>
S_latitude     == <<"l","a","t","i","t","u","d","e">>
S_longitude    == <<"l","o","n","g","i","t","u","d","e">>
S_date         == <<"d","a","t","e">>
S_note         == <<"n","o","t","e">>
S_Japan        == <<"J","a","p","a","n">>
S_isoDate      == <<"2","0","2","4","-","0","1","-","0","1">>
S_slashDate    == <<"2","0","2","4","/","0","1","/","0","1">>
S_decimal      == <<"1","2",".","3">>
S_quoted       == <<"a","\"","b">>
S_fence        == <<BT, BT, BT>>
S_fencedEmpty  == <<BT, BT, BT, "{", "}", BT, BT, BT>>
S_json         == <<"j","s","o","n">>
S_JSON         == <<"J","S","O","N">>
S_true         == <<"t","r","u","e">>
S_false        == <<"f","a","l","s","e">>
S_null         == <<"n","u","l","l">>
S_undefined    == <<"u","n","d","e","f","i","n","e","d">>
S_proto        == <<"_","_","p","r","o","t","o","_","_">>
S_objectObject == <<"[","o","b","j","e","c","t"," ","O","b","j","e","c","t","]">>
S_sure         == <<"S","u","r","e","!"," ">>
S_thanks       == <<" ","D","o","n","e",".">>
S_tTable       == <<"t",".","t","a","b","l","e">>
S_covidTable   == <<"c","o","v","i","d","_","d","u","m","m","y",".","c","o","v","i","d",
                    "1","9","_","o","p","e","n","_","d","a","t","a">>
S_errorPrefix  == <<"[","E","R","R","O","R","]"," ","L","L","M"," ","r","e","s","p","o",
                    "n","s","e"," ","i","s"," ","n","o","t"," ","a"," ","v","a","l","i",
                    "d"," ","J","S","O","N",":"," ">>

Digits == {"0","1","2","3","4","5","6","7","8","9"}

(* A character is one UTF-16 code unit.  U+0020..U+007E are the one-       *)
(* character strings (U+0060 is BT), U+0009 U+000A U+000C U+000D are "\t"  *)
(* "\n" "\f" "\r", and every other code unit is the string U+hhhh of its   *)
(* four lower-case hexadecimal digits.                                     *)
Hex == <<"0","1","2","3","4","5","6","7","8","9","a","b","c","d","e","f">>

Ascii ==
    << " ", "!", "\"", "#", "$", "%", "&", "'", "(", ")", "*", "+", ",", "-", ".", "/",
       "0", "1", "2", "3", "4", "5", "6", "7", "8", "9", ":", ";", "<", "=", ">", "?",
       "@", "A", "B", "C", "D", "E", "F", "G", "H", "I", "J", "K", "L", "M", "N", "O",
       "P", "Q", "R", "S", "T", "U", "V", "W", "X", "Y", "Z", "[", "\\", "]", "^", "_",
       BT, "a", "b", "c", "d", "e", "f", "g", "h", "i", "j", "k", "l", "m", "n", "o",
       "p", "q", "r", "s", "t", "u", "v", "w", "x", "y", "z", "{", "|", "}", "~" >>

Printable == {Ascii[i] : i \in DOMAIN Ascii}

(* the code unit whose hexadecimal digits have the values a b c d *)
CodeUnit(a, b, c, d) ==
    LET low == 16 * c + d
    IN  IF a = 0 /\ b = 0 /\ low >= 32 /\ low <= 126 THEN Ascii[low - 31]
        ELSE IF a = 0 /\ b = 0 /\ low = 9  THEN "\t"
        ELSE IF a = 0 /\ b = 0 /\ low = 10 THEN "\n"
        ELSE IF a = 0 /\ b = 0 /\ low = 12 THEN "\f"
        ELSE IF a = 0 /\ b = 0 /\ low = 13 THEN "\r"
        ELSE "U+" \o Hex[a + 1] \o Hex[b + 1] \o Hex[c + 1] \o Hex[d + 1]

BS   == "U+0008"       \* backspace

S_cote == <<"C", "U+00f4", "t", "e">>

(* U+0000..U+001F, which a JSON string may hold only escaped *)
ControlChars ==
    { "U+0000", "U+0001", "U+0002", "U+0003", "U+0004", "U+0005", "U+0006", "U+0007",
      "U+0008", "\t", "\n", "U+000b", "\f", "\r", "U+000e", "U+000f",
      "U+0010", "U+0011", "U+0012", "U+0013", "U+0014", "U+0015", "U+0016", "U+0017",
      "U+0018", "U+0019", "U+001a", "U+001b", "U+001c", "U+001d", "U+001e", "U+001f" }

(* U+D800..U+DBFF and U+DC00..U+DFFF *)
IsHighSurrogate(ch) ==
    \E b \in 8..11, c \in 0..15, d \in 0..15 : CodeUnit(13, b, c, d) = ch
IsLowSurrogate(ch) ==
    \E b \in 12..15, c \in 0..15, d \in 0..15 : CodeUnit(13, b, c, d) = ch

(* the values of the four hexadecimal digits of a control character or a   *)
(* surrogate                                                               *)
HexOf(ch) ==
    CHOOSE h \in ({0} \X {0} \X (0..1) \X (0..15))
                    \cup ({13} \X (8..15) \X (0..15) \X (0..15)) :
        CodeUnit(h[1], h[2], h[3], h[4]) = ch

(* Whitespace of JSON.parse *)
JsonWs == {" ", "\n", "\t", "\r"}

(* WhiteSpace and LineTerminator of ECMAScript: String.prototype.trim and  *)
(* the regex class \s; U+000B is the line tabulation, U+00A0 the no-break  *)
(* space, U+FEFF the byte order mark                                       *)
JsWs ==
    JsonWs \cup {"\f", "U+000b", "U+00a0", "U+feff", "U+1680", "U+2028", "U+2029", "U+202f", "U+205f",
                 "U+3000", "U+2000", "U+2001", "U+2002", "U+2003", "U+2004", "U+2005",
                 "U+2006", "U+2007", "U+2008", "U+2009", "U+200a"}

----------------------------------------------------------------------------
(* JavaScript scalars.                                                     *)

Undefined == [t |-> "undefined", s |-> S_undefined]
Null      == [t |-> "null",      s |-> S_null]
Str(s)    == [t |-> "string",    s |-> s]
Num(s)    == [t |-> "number",    s |-> s]
Bool(b)   == [t |-> "boolean",   s |-> IF b THEN S_true ELSE S_false]
(* an array or an object as a value: its members are not kept, s is what   *)
(* String gives for it, or NoString where String throws a TypeError: a     *)
(* parsed object with an own member toString has no function to turn it    *)
(* into a primitive, and neither has an array that holds one               *)
NoString == <<"TypeError">>
Composite(kind, str) == [t |-> kind, s |-> str]

Entry(k, v) == [key |-> k, value |-> v]

RECURSIVE Join(_, _)
Join(parts, sep) ==
    IF parts = <<>> THEN <<>>
    ELSE IF Len(parts) = 1 THEN parts[1]
    ELSE parts[1] \o sep \o Join(Tail(parts), sep)

HasKey(obj, k) == \E i \in DOMAIN obj : obj[i].key = k
Get(obj, k)    == obj[CHOOSE i \in DOMAIN obj : obj[i].key = k].value
Keys(obj)      == [i \in DOMAIN obj |-> obj[i].key]

DigitValue(c) == (CHOOSE i \in 1..10 : Hex[i] = c) - 1

(* 0.a < 0.b for two digit sequences without trailing zero *)
FractionLess(a, b) ==
    \E i \in 1..Len(b) :
        /\ i - 1 <= Len(a)
        /\ \A j \in 1..(i - 1) : a[j] = b[j]
        /\ (i > Len(a) \/ DigitValue(a[i]) < DigitValue(b[i]))

(* an array index: the canonical numeral of an integer below 2^32 - 1 *)
IsArrayIndex(k) ==
    /\ k # <<>>
    /\ \A i \in DOMAIN k : k[i] \in Digits
    /\ Len(k) = 1 \/ k[1] # "0"
    /\ \/ Len(k) < 10
       \/ Len(k) = 10 /\ ~FractionLess(<<"4","2","9","4","9","6","7","2","9","4">>, k)

(* whether the key a is enumerated before the new key b: array indices in  *)
(* ascending order come first, then the other keys in insertion order      *)
KeyBefore(a, b) ==
    IF IsArrayIndex(b)
    THEN /\ IsArrayIndex(a)
         /\ Len(a) < Len(b) \/ (Len(a) = Len(b) /\ a # b /\ FractionLess(a, b))
    ELSE TRUE

(* obj with key bound to val, in the order of Object.entries: a repeated   *)
(* key keeps its place, the last value wins                                *)
Put(obj, k, v) ==
    IF HasKey(obj, k)
    THEN [i \in DOMAIN obj |-> IF obj[i].key = k THEN Entry(k, v) ELSE obj[i]]
    ELSE SelectSeq(obj, LAMBDA e : KeyBefore(e.key, k))
            \o <<Entry(k, v)>>
            \o SelectSeq(obj, LAMBDA e : ~KeyBefore(e.key, k))

(* the object that has been given the entries of a in turn *)
RECURSIVE ObjectOf(_)
ObjectOf(a) ==
    IF a = <<>> THEN <<>>
    ELSE Put(ObjectOf(SubSeq(a, 1, Len(a) - 1)), a[Len(a)].key, a[Len(a)].value)

(* text[i .. i+Len(p)-1] = p *)
HasAt(s, i, p) ==
    /\ i >= 1
    /\ i + Len(p) - 1 <= Len(s)
    /\ \A k \in 1..Len(p) : s[i + k - 1] = p[k]

Contains(s, p) == \E i \in 1..(Len(s) + 1) : HasAt(s, i, p)

----------------------------------------------------------------------------
(* buildQuery(tableName, args, limit = 5)              utils.ts:20-34      *)

DefaultLimitTen == Num(<<"1","0">>)

(* the default of the parameter limit, line 20 *)
DefaultLimit == Num(<<"5">>)

(* the test of line 25 *)
Retained(value) ==
    /\ value # Undefined
    /\ value # Null
    /\ value # Str(<<>>)

(* the template literal of line 26: key = @key *)
Predicate(key) == key \o <<" ","="," ","@">> \o key

(* the local where after the loop of lines 24-29 *)
RECURSIVE WhereList(_)
WhereList(a) ==
    IF a = <<>> THEN <<>>
    ELSE IF Retained(Head(a).value)
         THEN <<Predicate(Head(a).key)>> \o WhereList(Tail(a))
         ELSE WhereList(Tail(a))

(* the own entries of the local params after the loop of lines 24-29: the  *)
(* assignment of line 27 to the key __proto__ is taken by the setter of    *)
(* Object.prototype and creates no property                                *)
RECURSIVE ParamsOf(_)
ParamsOf(a) ==
    IF a = <<>> THEN <<>>
    ELSE IF Retained(Head(a).value) /\ Head(a).key # S_proto
         THEN <<Entry(Head(a).key, Head(a).value)>> \o ParamsOf(Tail(a))
         ELSE ParamsOf(Tail(a))

(* the prototype of the local params after the loop: an object or array    *)
(* assigned to the key __proto__ takes the place of Object.prototype, any  *)
(* other value leaves it                                                   *)
ParamsProto(a) ==
    IF \E i \in DOMAIN a : a[i].key = S_proto /\ a[i].value.t \in {"object", "array"}
    THEN Get(a, S_proto)
    ELSE [t |-> "prototype", s |-> <<"O","b","j","e","c","t">>]

(* line 31 *)
WhereClause(where) ==
    IF Len(where) # 0
    THEN <<"W","H","E","R","E"," ">> \o Join(where, <<" ","A","N","D"," ">>)
    ELSE <<>>

(* line 32 *)
QueryText(tbl, whereClause, lim) ==
    <<"S","E","L","E","C","T"," ","*"," ","F","R","O","M"," ",BT>> \o tbl
      \o <<BT," ">> \o whereClause \o <<" ","L","I","M","I","T"," ">> \o lim.s

buildQuery(tbl, a, lim) ==
    LET l == IF lim = Undefined THEN DefaultLimit ELSE lim
    IN  [query  |-> QueryText(tbl, WhereClause(WhereList(a)), l),
         params |-> ParamsOf(a),
         proto  |-> ParamsProto(a)]

----------------------------------------------------------------------------
(* Inputs of buildQuery.  args holds the entries of the filter mapping in   *)
(* the order in which the caller gave them to it.                          *)

Fields == <<S_country_name, S_latitude, S_longitude, S_date>>
FieldSet == {Fields[i] : i \in DOMAIN Fields}

FilterValues ==
    {Undefined, Null, Str(<<>>), Str(S_Japan), Num(<<"0">>), Bool(FALSE),
     Composite("object", S_objectObject)}

(* args is a Record<string, any>: any text is a key *)
FilterEntries ==
    {Entry(k, v) : k \in {S_country_name, S_date, <<"9">>, <<"1","0">>, S_proto}, v \in FilterValues}

DistinctKeys(obj) ==
    \A i, j \in DOMAIN obj : i # j => obj[i].key # obj[j].key

Filters ==
    UNION {{a \in [1..n -> FilterEntries] : DistinctKeys(a)} : n \in 0..MaxFilterLen}

Tables == {S_tTable}
Limits == {Undefined, Num(<<"1","0">>)}

NoBuilt == [query |-> <<>>, params |-> <<>>, proto |-> ParamsProto(<<>>)]

BuildInit ==
    /\ bstage = "input"
    /\ tableName \in Tables
    /\ args \in Filters
    /\ limit \in Limits
    /\ built = NoBuilt

CallBuildQuery ==
    /\ bstage = "input"
    /\ bstage' = "output"
    /\ built' = buildQuery(tableName, ObjectOf(args), limit)
    /\ UNCHANGED <<tableName, args, limit>>
    /\ UNCHANGED <<estage, text, origin, extracted>>
    /\ UNCHANGED <<pc, tool, rawOutput, json, builderCalls, executorCalls, responses>>

----------------------------------------------------------------------------
(* JSON.parse and JSON.stringify, as called at utils.ts:6 and utils.ts:11. *)
(* Nested arrays and objects are parsed; what is kept of one is the text   *)
(* String gives for it.                                                    *)

RECURSIVE SkipWs(_, _)
SkipWs(s, i) ==
    IF i <= Len(s) /\ s[i] \in JsonWs THEN SkipWs(s, i + 1) ELSE i

(* the first index from i on that holds no decimal digit *)
DigitsEnd(s, i) ==
    CHOOSE j \in i..(Len(s) + 1) :
        /\ j = Len(s) + 1 \/ s[j] \notin Digits
        /\ \A m \in i..(j - 1) : s[m] \in Digits

ParseFail == [ok |-> FALSE, pos |-> 0, val |-> Undefined, obj |-> <<>>]
Parsed(p, v, o) == [ok |-> TRUE, pos |-> p, val |-> v, obj |-> o]

(* a hexadecimal digit of \uXXXX, of either case, and its value *)
IsHexDigit(c) ==
    (\E i \in 1..16 : Hex[i] = c) \/ c \in {"A", "B", "C", "D", "E", "F"}

HexValue(c) ==
    CASE c = "A" -> 10 [] c = "B" -> 11 [] c = "C" -> 12
      [] c = "D" -> 13 [] c = "E" -> 14 [] c = "F" -> 15
      [] OTHER   -> (CHOOSE i \in 1..16 : Hex[i] = c) - 1

(* the character a two-character escape stands for *)
Unescape(c) ==
    CASE c = "b" -> BS
      [] c = "f" -> "\f"
      [] c = "n" -> "\n"
      [] c = "r" -> "\r"
      [] c = "t" -> "\t"
      [] OTHER   -> c

(* the characters of a string literal whose opening quote precedes i *)
RECURSIVE ScanString(_, _, _)
ScanString(s, i, acc) ==
    IF i > Len(s) THEN ParseFail
    ELSE IF s[i] = "\"" THEN Parsed(i + 1, Str(acc), <<>>)
    ELSE IF s[i] = "\\"
         THEN IF i + 1 > Len(s) THEN ParseFail
              ELSE IF s[i + 1] \in {"\"", "\\", "/", "b", "f", "n", "r", "t"}
                   THEN ScanString(s, i + 2, Append(acc, Unescape(s[i + 1])))
              ELSE IF /\ s[i + 1] = "u"
                      /\ i + 5 <= Len(s)
                      /\ \A k \in 2..5 : IsHexDigit(s[i + k])
                   THEN ScanString(s, i + 6,
                            Append(acc, CodeUnit(HexValue(s[i + 2]), HexValue(s[i + 3]),
                                                 HexValue(s[i + 4]), HexValue(s[i + 5]))))
              ELSE ParseFail
    ELSE IF s[i] \in ControlChars THEN ParseFail
    ELSE ScanString(s, i + 1, Append(acc, s[i]))

----------------------------------------------------------------------------
(* Numbers.  A JSON number literal denotes 0.D * 10^n for a sequence D of  *)
(* decimal digits without leading or trailing zero; JSON.parse keeps the   *)
(* nearest double, and String gives the shortest decimal that reads back   *)
(* as that double (ECMAScript Number::toString).                           *)

FirstNonZero(d) ==
    IF \A i \in DOMAIN d : d[i] = "0" THEN Len(d) + 1
    ELSE CHOOSE i \in DOMAIN d : d[i] # "0" /\ \A j \in 1..(i - 1) : d[j] = "0"

LastNonZero(d) ==
    IF \A i \in DOMAIN d : d[i] = "0" THEN 0
    ELSE CHOOSE i \in DOMAIN d : d[i] # "0" /\ \A j \in (i + 1)..Len(d) : d[j] = "0"

RECURSIVE NatValue(_)
NatValue(d) ==
    IF d = <<>> THEN 0
    ELSE 10 * NatValue(SubSeq(d, 1, Len(d) - 1)) + DigitValue(d[Len(d)])

RECURSIVE NatText(_)
NatText(m) ==
    IF m < 10 THEN <<Hex[m + 1]>> ELSE NatText(m \div 10) \o <<Hex[(m % 10) + 1]>>

(* the value of the digits of an exponent.  One of 2^30 or more is kept as  *)
(* 2^30: the digits of a literal weigh less than that, a text holding      *)
(* fewer than 2^30 characters, so the value is 0 or beyond every double    *)
(* either way.                                                             *)
ExponentValue(d) ==
    LET e == SubSeq(d, FirstNonZero(d), Len(d))
    IN  IF \/ Len(e) > 10
           \/ Len(e) = 10 /\ ~FractionLess(e, <<"1","0","7","3","7","4","1","8","2","4">>)
        THEN 1073741824
        ELSE NatValue(e)

S_infinity == <<"I","n","f","i","n","i","t","y">>

(* Number::toString of the nonzero finite double that is 0.D * 10^n *)
NumberToString(neg, D, n) ==
    LET k    == Len(D)
        e    == n - 1
        body == IF k <= n /\ n <= 21 THEN D \o [i \in 1..(n - k) |-> "0"]
                ELSE IF 0 < n /\ n <= 21
                     THEN SubSeq(D, 1, n) \o <<".">> \o SubSeq(D, n + 1, k)
                ELSE IF -6 < n /\ n <= 0 THEN <<"0", ".">> \o [i \in 1..(-n) |-> "0"] \o D
                ELSE (IF k = 1 THEN D ELSE <<D[1], ".">> \o SubSeq(D, 2, k))
                     \o <<"e">>
                     \o (IF e < 0 THEN <<"-">> \o NatText(-e) ELSE <<"+">> \o NatText(e))
    IN  (IF neg THEN <<"-">> ELSE <<>>) \o body

----------------------------------------------------------------------------
(* Natural numbers beyond the machine integers: the sequence of the digits *)
(* in base 1000, least significant first, the last one not 0.              *)

BigTrim(a) ==
    SubSeq(a, 1, IF \A i \in DOMAIN a : a[i] = 0 THEN 0
                 ELSE CHOOSE i \in DOMAIN a :
                          a[i] # 0 /\ \A j \in (i + 1)..Len(a) : a[j] = 0)

BigLess(a, b) ==
    \/ Len(a) < Len(b)
    \/ /\ Len(a) = Len(b)
       /\ \E i \in DOMAIN a : a[i] < b[i] /\ \A j \in (i + 1)..Len(a) : a[j] = b[j]

BigLeq(a, b) == a = b \/ BigLess(a, b)

BigOdd(a) == a # <<>> /\ a[1] % 2 = 1

(* each place keeps what is below 1000 and takes what the place below it passes up *)
CarryUp(c) ==
    [i \in 1..(Len(c) + 1) |->
        (IF i <= Len(c) THEN c[i] % 1000 ELSE 0) + (IF i > 1 THEN c[i - 1] \div 1000 ELSE 0)]

(* carry look-ahead for places that hold at most 1998: a place receives a  *)
(* carry when a place below it holds 1000 or more and every place between  *)
(* holds 999                                                               *)
Settle(c) ==
    LET carry(k) == \E j \in 1..(k - 1) :
                        c[j] >= 1000 /\ \A i \in (j + 1)..(k - 1) : c[i] = 999
    IN  [k \in 1..(Len(c) + 1) |->
            ((IF k <= Len(c) THEN c[k] ELSE 0) + (IF carry(k) THEN 1 ELSE 0)) % 1000]

(* Settle(CarryUp(CarryUp(CarryUp(c)))) is the digits of the number whose  *)
(* place i weighs c[i], for natural c[i]: three rounds of passing up leave *)
(* at most 1002 in each place                                              *)

BigPlus(a, b) ==
    BigTrim(Settle(CarryUp(CarryUp(CarryUp([i \in 1..(IF Len(a) > Len(b) THEN Len(a) ELSE Len(b)) |->
                        (IF i <= Len(a) THEN a[i] ELSE 0) + (IF i <= Len(b) THEN b[i] ELSE 0)])))))

(* a - b for a >= b: a plus the complement of b plus 1, less 1000^Len(a) *)
BigMinus(a, b) ==
    BigTrim(SubSeq(Settle(CarryUp(CarryUp(CarryUp([i \in 1..Len(a) |->
                               a[i] + 999 - (IF i <= Len(b) THEN b[i] ELSE 0)
                                 + (IF i = 1 THEN 1 ELSE 0)])))),
                   1, Len(a)))

(* f[lo] + ... + f[hi] *)
RECURSIVE SumOver(_, _, _)
SumOver(f, lo, hi) ==
    IF lo > hi THEN 0
    ELSE IF lo = hi THEN f[lo]
    ELSE LET mid == (lo + hi) \div 2
         IN  SumOver(f, lo, mid) + SumOver(f, mid + 1, hi)

BigTimes(a, b) ==
    IF a = <<>> \/ b = <<>> THEN <<>>
    ELSE BigTrim(Settle(CarryUp(CarryUp(CarryUp([k \in 1..(Len(a) + Len(b) - 1) |->
            LET lo == IF k - Len(b) + 1 > 1 THEN k - Len(b) + 1 ELSE 1
                hi == IF k < Len(a) THEN k ELSE Len(a)
            IN  SumOver([i \in lo..hi |-> a[i] * b[k + 1 - i]], lo, hi)])))))

(* 2^e *)
RECURSIVE Pow2(_)
Pow2(e) ==
    IF e < 9 THEN <<2 ^ e>>
    ELSE LET h == Pow2(e \div 2)
         IN  BigTimes(BigTimes(h, h), IF e % 2 = 1 THEN <<2>> ELSE <<1>>)

(* 10^e *)
Pow10(e) ==
    [i \in 1..(e \div 3) |-> 0]
        \o <<CASE e % 3 = 0 -> 1 [] e % 3 = 1 -> 10 [] OTHER -> 100>>

(* the number that the decimal digits d, the most significant first, write *)
BigOfDecimal(d) ==
    LET k     == Len(d)
        at(j) == IF j >= 1 THEN d[j] ELSE 0
    IN  BigTrim([i \in 1..((k + 2) \div 3) |->
                    LET u == k - 3 * (i - 1)
                    IN  at(u) + 10 * at(u - 1) + 100 * at(u - 2)])

Two52 == Pow2(52)

----------------------------------------------------------------------------
(* Decimal to binary64 and back.                                           *)

(* a * g for a machine integer g *)
TimesDigit(a, g) ==
    IF g = 0 THEN <<>> ELSE BigTrim(Settle(CarryUp(CarryUp(CarryUp([i \in DOMAIN a |-> a[i] * g])))))

(* the greatest g in 0..9 with g * T <= R, for R < 10 * T *)
QuotientDigit(R, T) ==
    CHOOSE g \in 0..9 :
        BigLeq(TimesDigit(T, g), R) /\ (g = 9 \/ BigLess(R, TimesDigit(T, g + 1)))

(* long division of R by M for R < 10^(j+1) * M: the j + 1 decimal digits  *)
(* of the quotient, and the remainder                                      *)
RECURSIVE DivFrom(_, _, _)
RECURSIVE DivDigit(_, _, _, _, _)
DivFrom(R, M, j) ==
    IF j < 0 THEN [quot |-> <<>>, rem |-> R]
    ELSE DivDigit(QuotientDigit(R, BigTimes(M, Pow10(j))), R, BigTimes(M, Pow10(j)), M, j)

(* the digit g of weight 10^j put before the digits of lesser weight *)
DivDigit(g, R, T, M, j) ==
    LET d == DivFrom(BigMinus(R, TimesDigit(T, g)), M, j - 1)
    IN  [quot |-> <<g>> \o d.quot, rem |-> d.rem]

(* D * 10^p / 2^q as a fraction of two naturals *)
Numerator(D, p, q) ==
    BigTimes(BigTimes(BigOfDecimal([i \in DOMAIN D |-> DigitValue(D[i])]),
                      IF p >= 0 THEN Pow10(p) ELSE <<1>>),
             IF q < 0 THEN Pow2(-q) ELSE <<1>>)

Denominator(p, q) ==
    BigTimes(IF p >= 0 THEN <<1>> ELSE Pow10(-p), IF q > 0 THEN Pow2(q) ELSE <<1>>)

(* the exponent q of the double nearest to D * 10^p: the one with          *)
(* 2^52 <= D * 10^p / 2^q < 2^53, not below -1074; it lies within 52 of    *)
(* the binary logarithm of 10^n, n the number of digits D * 10^p has       *)
(* before its decimal point                                                *)
BinaryExponent(D, p) ==
    IF /\ Len(D) + p <= -307
       /\ BigLess(Numerator(D, p, -1074), BigTimes(Denominator(p, -1074), Two52))
    THEN -1074
    ELSE CHOOSE x \in (((Len(D) + p - 1) * 33219) \div 10000 - 53)
                          ..(((Len(D) + p) * 33220) \div 10000 - 51) :
             LET N == Numerator(D, p, x)
                 L == BigTimes(Denominator(p, x), Two52)
             IN  BigLeq(L, N) /\ BigLess(N, TimesDigit(L, 2))

(* the natural nearest to N / M, ties to the even one, from the long       *)
(* division d of N by M                                                    *)
RoundQuotient(d, M) ==
    IF \/ BigLess(M, TimesDigit(d.rem, 2))
       \/ (TimesDigit(d.rem, 2) = M /\ BigOdd(BigOfDecimal(d.quot)))
    THEN BigPlus(BigOfDecimal(d.quot), <<1>>)
    ELSE BigOfDecimal(d.quot)

Normalised(m, q) ==
    IF m = TimesDigit(Two52, 2) THEN [m |-> Two52, q |-> q + 1] ELSE [m |-> m, q |-> q]

NearestAt(D, p, q) ==
    Normalised(RoundQuotient(DivFrom(Numerator(D, p, q), Denominator(p, q), 15),
                             Denominator(p, q)),
               q)

(* the double m * 2^q nearest to D * 10^p, ties to the even mantissa *)
NearestBinary(D, p) == NearestAt(D, p, BinaryExponent(D, p))

(* the digits of r/s, most significant first, up to the first place at     *)
(* which what is written reads back as the double: mp and mm are the half  *)
(* gaps to the doubles above and below, which themselves read back as the  *)
(* double when its mantissa is even                                        *)
RECURSIVE Generate(_, _, _, _, _)
RECURSIVE Emit(_, _, _, _, _, _)
Generate(r, s, mp, mm, even) ==
    LET r10 == TimesDigit(r, 10)
        d   == QuotientDigit(r10, s)
    IN  Emit(d, BigMinus(r10, TimesDigit(s, d)), s,
             TimesDigit(mp, 10), TimesDigit(mm, 10), even)

(* the digit d, or d + 1, ends the digits when what is left, r1/s, is     *)
(* within the half gap below (tc1) or above (tc2)                          *)
Emit(d, r1, s, mp1, mm1, even) ==
    LET tc1 == IF even THEN BigLeq(r1, mm1) ELSE BigLess(r1, mm1)
        tc2 == IF even THEN ~BigLess(BigPlus(r1, mp1), s) ELSE BigLess(s, BigPlus(r1, mp1))
    IN  IF ~tc1 /\ ~tc2 THEN <<Hex[d + 1]>> \o Generate(r1, s, mp1, mm1, even)
        ELSE IF tc1 /\ ~tc2 THEN <<Hex[d + 1]>>
        ELSE IF ~tc1 /\ tc2 THEN <<Hex[d + 2]>>
        ELSE IF BigLess(TimesDigit(r1, 2), s) THEN <<Hex[d + 1]>> ELSE <<Hex[d + 2]>>

(* the decimal exponent x with 1/10 <= hi/s * 10^-x < 1, the ends counted  *)
(* as the mantissa is even                                                 *)
DecimalExponent(hi, s, even, near) ==
    CHOOSE x \in (near - 1)..(near + 1) :
        LET H == BigTimes(hi, IF x < 0 THEN Pow10(-x) ELSE <<1>>)
            S == BigTimes(s, IF x > 0 THEN Pow10(x) ELSE <<1>>)
        IN  IF even THEN BigLess(H, S) /\ ~BigLess(TimesDigit(H, 10), S)
            ELSE BigLeq(H, S) /\ BigLess(S, TimesDigit(H, 10))

ScaledDigits(r, s, mp, mm, even, k) ==
    LET up   == IF k > 0 THEN Pow10(k) ELSE <<1>>
        down == IF k < 0 THEN Pow10(-k) ELSE <<1>>
    IN  [D |-> Generate(BigTimes(r, down), BigTimes(s, up),
                        BigTimes(mp, down), BigTimes(mm, down), even),
         n |-> k]

(* the shortest decimal 0.D * 10^n that reads back as the double m * 2^q,  *)
(* the nearest to it where several are as short; n is within 1 of near,    *)
(* the exponent of the decimal that was rounded to the double.  The gap    *)
(* above a power of two is twice the gap below it.                         *)
ShortestDecimal(m, q, near) ==
    LET one == IF m = Two52 /\ q > -1074 THEN 2 ELSE 1
        r   == BigTimes(m, IF q >= 0 THEN Pow2(q + one) ELSE <<2 * one>>)
        s   == IF q >= 0 THEN <<2 * one>> ELSE Pow2(one - q)
        mp  == IF q >= 0 THEN Pow2(q + one - 1) ELSE <<one>>
        mm  == IF q >= 0 THEN Pow2(q) ELSE <<1>>
    IN  ScaledDigits(r, s, mp, mm, ~BigOdd(m),
                     DecimalExponent(BigPlus(r, mp), s, ~BigOdd(m), near))

FromBinary(b, n) ==
    IF b.m = <<>> THEN [kind |-> "zero", D |-> <<>>, n |-> 0]
    ELSE IF b.q > 971 THEN [kind |-> "infinite", D |-> <<>>, n |-> 0]
    ELSE [kind |-> "finite"] @@ ShortestDecimal(b.m, b.q, n)

(* the double nearest to 0.D * 10^n, as the shortest digits that read back *)
(* as it.  A decimal of at most 15 significant digits in the range of the  *)
(* normal doubles is its own shortest form; below 10^-324 lies only 0 and  *)
(* above 10^309 only Infinity.                                             *)
NearestDouble(D, n) ==
    IF D = <<>> \/ n <= -324 THEN [kind |-> "zero", D |-> <<>>, n |-> 0]
    ELSE IF n > 309 THEN [kind |-> "infinite", D |-> <<>>, n |-> 0]
    ELSE IF Len(D) <= 15 /\ n >= -306 /\ n <= 308
         THEN [kind |-> "finite", D |-> D, n |-> n]
    ELSE FromBinary(NearestBinary(D, n - Len(D)), n)

(* String of the number of sign neg that is the double d *)
Shown(neg, d) ==
    IF d.kind = "zero" THEN <<"0">>
    ELSE IF d.kind = "infinite" THEN (IF neg THEN <<"-">> ELSE <<>>) \o S_infinity
    ELSE NumberToString(neg, d.D, d.n)

(* the literal whose integer digits are i1..i2-1, whose fraction, if any,  *)
(* ends before i3 > i2 and whose exponent digits, if any, are i4..i5-1,    *)
(* i4 > i3                                                                 *)
NumberAt(s, neg, i1, i2, i3, i4, i5) ==
    LET all == SubSeq(s, i1, i2 - 1) \o SubSeq(s, i2 + 1, i3 - 1)
        ex  == IF i4 = i3 THEN 0
               ELSE IF s[i4 - 1] = "-" THEN -ExponentValue(SubSeq(s, i4, i5 - 1))
               ELSE ExponentValue(SubSeq(s, i4, i5 - 1))
    IN  IF \/ i2 = i1
           \/ (i2 > i1 + 1 /\ s[i1] = "0")
           \/ (i3 > i2 /\ i3 = i2 + 1)
           \/ (i4 > i3 /\ i5 = i4)
        THEN ParseFail
        ELSE Parsed(i5,
                    Num(Shown(neg,
                              NearestDouble(SubSeq(all, FirstNonZero(all), LastNonZero(all)),
                                            (i2 - i1) - (FirstNonZero(all) - 1) + ex))),
                    <<>>)

(* a number literal at i; its value is kept as the text String gives it *)
ParseNumber(s, i) ==
    LET i1 == IF s[i] = "-" THEN i + 1 ELSE i
        i2 == DigitsEnd(s, i1)
        i3 == IF i2 <= Len(s) /\ s[i2] = "." THEN DigitsEnd(s, i2 + 1) ELSE i2
        i4 == IF i3 <= Len(s) /\ s[i3] \in {"e", "E"}
              THEN (IF i3 + 1 <= Len(s) /\ s[i3 + 1] \in {"+", "-"} THEN i3 + 2 ELSE i3 + 1)
              ELSE i3
    IN  NumberAt(s, s[i] = "-", i1, i2, i3, i4, IF i4 > i3 THEN DigitsEnd(s, i4) ELSE i3)

RECURSIVE ParseValue(_, _)
RECURSIVE ParseMembers(_, _, _)
RECURSIVE ParseElements(_, _, _)

ParseValue(s, i0) ==
    LET i == SkipWs(s, i0)
    IN  IF i > Len(s) THEN ParseFail
        ELSE IF s[i] = "{"
             THEN LET j == SkipWs(s, i + 1)
                  IN  IF j <= Len(s) /\ s[j] = "}"
                      THEN Parsed(j + 1, Composite("object", S_objectObject), <<>>)
                      ELSE ParseMembers(s, j, <<>>)
        ELSE IF s[i] = "["
             THEN LET j == SkipWs(s, i + 1)
                  IN  IF j <= Len(s) /\ s[j] = "]"
                      THEN Parsed(j + 1, Composite("array", <<>>), <<>>)
                      ELSE ParseElements(s, j, <<>>)
        ELSE IF s[i] = "\"" THEN ScanString(s, i + 1, <<>>)
        ELSE IF s[i] \in Digits \cup {"-"} THEN ParseNumber(s, i)
        ELSE IF HasAt(s, i, S_true)  THEN Parsed(i + 4, Bool(TRUE), <<>>)
        ELSE IF HasAt(s, i, S_false) THEN Parsed(i + 5, Bool(FALSE), <<>>)
        ELSE IF HasAt(s, i, S_null)  THEN Parsed(i + 4, Null, <<>>)
        ELSE ParseFail

(* the members of an object from i on, acc holding those already read *)
ParseMembers(s, i0, acc) ==
    LET i == SkipWs(s, i0)
    IN  IF i > Len(s) \/ s[i] # "\"" THEN ParseFail
        ELSE LET k == ScanString(s, i + 1, <<>>)
                 c == IF k.ok THEN SkipWs(s, k.pos) ELSE 0
             IN  IF ~k.ok \/ c > Len(s) \/ s[c] # ":" THEN ParseFail
                 ELSE LET v   == ParseValue(s, c + 1)
                          e   == IF v.ok THEN SkipWs(s, v.pos) ELSE 0
                          obj == Put(acc, k.val.s, v.val)
                      IN  IF ~v.ok \/ e > Len(s) THEN ParseFail
                          ELSE IF s[e] = "," THEN ParseMembers(s, e + 1, obj)
                          ELSE IF s[e] = "}"
                               THEN Parsed(e + 1,
                                        Composite("object",
                                            IF HasKey(obj, <<"t","o","S","t","r","i","n","g">>)
                                            THEN NoString ELSE S_objectObject),
                                        obj)
                          ELSE ParseFail

(* the elements of an array from i on, acc holding the texts that          *)
(* Array.prototype.join gives for those already read: none for null        *)
ParseElements(s, i0, acc) ==
    LET v     == ParseValue(s, i0)
        e     == IF v.ok THEN SkipWs(s, v.pos) ELSE 0
        texts == Append(acc, IF v.val.t = "null" THEN <<>> ELSE v.val.s)
    IN  IF ~v.ok \/ e > Len(s) THEN ParseFail
        ELSE IF s[e] = "," THEN ParseElements(s, e + 1, texts)
        ELSE IF s[e] = "]"
             THEN Parsed(e + 1,
                         Composite("array",
                             IF \E n \in DOMAIN texts : texts[n] = NoString
                             THEN NoString ELSE Join(texts, <<",">>)),
                         <<>>)
        ELSE ParseFail

(* nothing but white space follows the value *)
WholeText(s, r) ==
    IF r.ok /\ SkipWs(s, r.pos) > Len(s) THEN r ELSE ParseFail

(* JSON.parse(s): ok is FALSE where it throws *)
JSONparse(s) == WholeText(s, ParseValue(s, 1))

(* \uhhhh *)
UnicodeEscape(ch) ==
    LET h == HexOf(ch)
    IN  <<"\\", "u", Hex[h[1] + 1], Hex[h[2] + 1], Hex[h[3] + 1], Hex[h[4] + 1]>>

(* QuoteJSONString on the code unit at i: the short escapes, \u00hh for    *)
(* the other control characters, \udhhh for a surrogate without its pair   *)
EscapeAt(s, i) ==
    LET c == s[i]
    IN  IF c = "\"" THEN <<"\\", "\"">>
        ELSE IF c = "\\" THEN <<"\\", "\\">>
        ELSE IF c = BS   THEN <<"\\", "b">>
        ELSE IF c = "\f" THEN <<"\\", "f">>
        ELSE IF c = "\n" THEN <<"\\", "n">>
        ELSE IF c = "\r" THEN <<"\\", "r">>
        ELSE IF c = "\t" THEN <<"\\", "t">>
        ELSE IF c \in ControlChars THEN UnicodeEscape(c)
        ELSE IF c \in Printable THEN <<c>>
        ELSE IF IsHighSurrogate(c) /\ ~(i < Len(s) /\ IsLowSurrogate(s[i + 1]))
             THEN UnicodeEscape(c)
        ELSE IF IsLowSurrogate(c) /\ ~(i > 1 /\ IsHighSurrogate(s[i - 1]))
             THEN UnicodeEscape(c)
        ELSE <<c>>

Escape(s) == Join([i \in DOMAIN s |-> EscapeAt(s, i)], <<>>)

Quote(s) == <<"\"">> \o Escape(s) \o <<"\"">>

(* the JSON text of a scalar that is a member's value: a number that is    *)
(* not finite is written null                                              *)
ValueJson(v) ==
    IF v.t = "string" THEN Quote(v.s)
    ELSE IF v.t = "number" /\ v.s \in {S_infinity, <<"-">> \o S_infinity, <<"N","a","N">>}
         THEN S_null
    ELSE v.s

(* the members JSON.stringify writes: one whose value is undefined is left out *)
Written(obj) == SelectSeq(obj, LAMBDA e : e.value.t # "undefined")

(* JSON.stringify(obj) of an object of scalars *)
Stringify(obj) ==
    LET w == Written(obj)
    IN  <<"{">> \o Join([i \in DOMAIN w |->
                            Quote(w[i].key) \o <<":">> \o ValueJson(w[i].value)],
                        <<",">>) \o <<"}">>

----------------------------------------------------------------------------
(* OutputSchema.parse                                   index.ts:20-25     *)

(* /^\d{4}-\d{2}-\d{2}$/ *)
DateRegex(s) ==
    /\ Len(s) = 10
    /\ \A i \in {1, 2, 3, 4, 6, 7, 9, 10} : s[i] \in Digits
    /\ s[5] = "-"
    /\ s[8] = "-"

(* the check of one key of the shape on a present value *)
FieldOk(k, v) ==
    CASE k = S_country_name -> v.t = "string"
      [] k = S_latitude     -> v.t = "number"
      [] k = S_longitude    -> v.t = "number"
      [] k = S_date         -> v.t = "string" /\ DateRegex(v.s)
      [] OTHER              -> TRUE

(* the keys of the shape that the object holds, in the order of the shape *)
RECURSIVE ShapeEntries(_, _)
ShapeEntries(shape, obj) ==
    IF shape = <<>> THEN <<>>
    ELSE (IF HasKey(obj, Head(shape))
          THEN <<Entry(Head(shape), Get(obj, Head(shape)))>> ELSE <<>>)
         \o ShapeEntries(Tail(shape), obj)

(* a strict object schema: an unknown key is an error *)
SchemaParseStrict(r) ==
    IF /\ r.ok
       /\ r.val.t = "object"
       /\ \A i \in DOMAIN r.obj :
             r.obj[i].key \in {S_country_name, S_latitude, S_longitude, S_date}
             /\ FieldOk(r.obj[i].key, r.obj[i].value)
    THEN [ok |-> TRUE, rec |-> r.obj]
    ELSE [ok |-> FALSE, rec |-> <<>>]

(* OutputSchema.parse(JSON.parse(s)): ok is FALSE where either throws *)
SchemaParse(r) ==
    IF /\ r.ok
       /\ r.val.t = "object"
       /\ \A i \in DOMAIN r.obj : FieldOk(r.obj[i].key, r.obj[i].value)
    THEN [ok |-> TRUE, rec |-> ShapeEntries(Fields, r.obj)]
    ELSE [ok |-> FALSE, rec |-> <<>>]

----------------------------------------------------------------------------
(* extractJsonFromLLMResponse(text, schema)             utils.ts:3-18      *)

RECURSIVE TrimStart(_)
TrimStart(s) ==
    IF s # <<>> /\ Head(s) \in JsWs THEN TrimStart(Tail(s)) ELSE s
RECURSIVE TrimEnd(_)
TrimEnd(s) ==
    IF s # <<>> /\ s[Len(s)] \in JsWs THEN TrimEnd(SubSeq(s, 1, Len(s) - 1)) ELSE s
Trim(s) == TrimEnd(TrimStart(s))

(* the least index >= i at which three grave accents start, or 0 *)
FenceFrom(s, i) ==
    LET at == {j \in i..(Len(s) - 2) : HasAt(s, j, S_fence)}
    IN  IF at = {} THEN 0 ELSE CHOOSE j \in at : \A k \in at : j <= k

RECURSIVE SkipJsWs(_, _)
SkipJsWs(s, i) ==
    IF i <= Len(s) /\ s[i] \in JsWs THEN SkipJsWs(s, i + 1) ELSE i

IsJsonTag(s, i) ==
    /\ i + 3 <= Len(s)
    /\ s[i] \in {"j", "J"} /\ s[i + 1] \in {"s", "S"}
    /\ s[i + 2] \in {"o", "O"} /\ s[i + 3] \in {"n", "N"}

NoMatch == [found |-> FALSE, group |-> <<>>, next |-> 0]

(* text.match of the fence pattern (case-insensitive): the leftmost three  *)
(* grave accents that a later three close, an optional tag json and any    *)
(* white space after them skipped, and as group 1 the shortest content up  *)
(* to the next three grave accents                                         *)
FenceMatch(s) ==
    LET open == FenceFrom(s, 1)
        tag  == IF IsJsonTag(s, open + 3) THEN open + 7 ELSE open + 3
        from == SkipJsWs(s, tag)
        shut == FenceFrom(s, from)
    IN  IF open = 0 \/ shut = 0 THEN NoMatch
        ELSE [found |-> TRUE, group |-> SubSeq(s, from, shut - 1), next |-> shut + 3]

JsNull == [t |-> "null", rec |-> <<>>]
JsObject(rec) == [t |-> "object", rec |-> rec]

(* an empty record returned where the inner catch returns null *)
SecondStageEmptyRecord(jsonText) ==
    LET match == FenceMatch(jsonText)
    IN  IF match.found
        THEN LET second == SchemaParse(JSONparse(match.group))
             IN  IF second.ok THEN JsObject(second.rec) ELSE JsObject(<<>>)
        ELSE JsNull

(* every block tried in turn until one validates *)
RECURSIVE SecondStageAnyBlock(_)
SecondStageAnyBlock(jsonText) ==
    LET match == FenceMatch(jsonText)
    IN  IF match.found
        THEN LET second == SchemaParse(JSONparse(match.group))
             IN  IF second.ok THEN JsObject(second.rec)
                 ELSE SecondStageAnyBlock(SubSeq(jsonText, match.next, Len(jsonText)))
        ELSE JsNull

(* lines 8-16: the catch block of the first attempt *)
SecondStage(jsonText) ==
    LET match == FenceMatch(jsonText)
    IN  IF match.found
        THEN LET second == SchemaParse(JSONparse(match.group))
             IN  IF second.ok THEN JsObject(second.rec) ELSE JsNull
        ELSE JsNull

extractJsonFromLLMResponse(t) ==
    LET jsonText == Trim(t)
        first    == SchemaParse(JSONparse(jsonText))
    IN  IF first.ok THEN JsObject(first.rec) ELSE SecondStage(jsonText)

----------------------------------------------------------------------------
(* Inputs of extractJsonFromLLMResponse: a body, bare or in a fenced       *)
(* block, with white space, prose and a second block around it.            *)

Candidates ==
    << Entry(S_country_name, Str(S_Japan)),
       Entry(S_country_name, Str(S_fence)),
       Entry(S_country_name, Str(S_fencedEmpty)),
       Entry(S_country_name, Str(S_quoted)),
       Entry(S_country_name, Str(S_cote \o <<BS, "U+000b">>)),
       Entry(S_country_name, Num(<<"5">>)),
       Entry(S_country_name, Null),
       Entry(S_latitude, Num(<<"3","5">>)),
       Entry(S_latitude, Num(S_decimal)),
       Entry(S_latitude, Num(<<"1","e","+","2","1">>)),
       Entry(S_latitude, Str(S_decimal)),
       Entry(S_longitude, Num(<<"-","7">>)),
       Entry(S_longitude, Bool(TRUE)),
       Entry(S_date, Str(S_isoDate)),
       Entry(S_date, Str(S_slashDate)),
       Entry(S_note, Bool(TRUE)) >>

RECURSIVE Pick(_, _)
Pick(I, i) ==
    IF i > Len(Candidates) THEN <<>>
    ELSE (IF i \in I THEN <<Candidates[i]>> ELSE <<>>) \o Pick(I, i + 1)

Objects ==
    {o \in {Pick(I, 1) : I \in {J \in SUBSET DOMAIN Candidates : Cardinality(J) <= MaxFields}} :
        DistinctKeys(o)}

Junk ==
    { <<>>,
      S_null,
      <<"5">>,
      <<"[","1","]">>,
      <<"o","o","p","s">>,
      <<"{","\"","d","a","t","e","\"",":">> }

Bodies ==
    {[isObject |-> TRUE, obj |-> o, src |-> Stringify(o)] : o \in Objects}
      \cup {[isObject |-> FALSE, obj |-> <<>>, src |-> j] : j \in Junk}

(* JSON texts that JSON.stringify does not write: escapes of printable     *)
(* characters, an exponent, an array index as a key, digits beyond the     *)
(* precision of a double                                                   *)
WrittenBodies ==
    { [isObject |-> TRUE,
       obj |-> <<Entry(<<"1">>, Num(<<"0">>)), Entry(S_country_name, Str(S_cote)),
                 Entry(S_latitude, Num(<<"1","0","0">>))>>,
       src |-> <<"{","\"","c","o","u","n","t","r","y","_","n","a","m","e","\"",":","\"","C","\\","u","0","0","f","4","t","e","\"",",","\"",
               "l","a","t","i","t","u","d","e","\"",":","1","e","2",",","\"","1","\"",":","0","}">>],
      [isObject |-> TRUE,
       obj |-> <<Entry(S_longitude, Num(<<"0",".","1">>))>>,
       src |-> <<"{","\"","l","o","n","g","i","t","u","d","e","\"",":",
               "0",".","1","0","0","0","0","0","0","0","0","0","0","0","0","0","0","0","0","5","5","5","1","1","1","5","1","2","3","1","2","5","7","8","2","7","}">>] }

(* white space of JSON, inside a block *)
Pads == {[i \in 1..n |-> c] : n \in 0..MaxPad, c \in {" ", "\n"}}

(* white space that trim removes, around a whole text *)
TrimPads == {[i \in 1..n |-> c] : n \in 0..MaxPad, c \in {" ", "\n", "U+000b"}}

JapanBody ==
    LET o == <<Entry(S_country_name, Str(S_Japan))>>
    IN  [isObject |-> TRUE, obj |-> o, src |-> Stringify(o)]

Origins ==
    {[kind |-> "bare", body |-> b, lead |-> l, trail |-> t,
      tag |-> <<>>, prose |-> "none", second |-> "none"] :
        b \in Bodies, l \in TrimPads, t \in TrimPads}
      \cup
    {[kind |-> "bare", body |-> b, lead |-> l, trail |-> <<"U+feff", "U+00a0">>,
      tag |-> <<>>, prose |-> "none", second |-> "none"] :
        b \in WrittenBodies, l \in {<<>>, <<"\f">>}}
      \cup
    {[kind |-> "fenced", body |-> b, lead |-> <<"\n">>, trail |-> <<"\n">>,
      tag |-> g, prose |-> "before", second |-> "none"] :
        b \in WrittenBodies, g \in {<<>>, S_json}}
      \cup
    {[kind |-> "fenced", body |-> b, lead |-> p, trail |-> p,
      tag |-> g, prose |-> r, second |-> x] :
        b \in Bodies, p \in Pads, g \in {<<>>, S_json, S_JSON},
        r \in {"none", "before", "around"}, x \in {"none", "valid", "junk"}}

Block(tag, pad, src) == S_fence \o tag \o pad \o src \o pad \o S_fence

TextOf(o) ==
    IF o.kind = "bare" THEN o.lead \o o.body.src \o o.trail
    ELSE (IF o.prose = "none" THEN <<>> ELSE S_sure)
           \o Block(o.tag, o.lead, o.body.src)
           \o (CASE o.second = "valid" -> <<"\n">> \o Block(S_json, <<"\n">>, JapanBody.src)
                 [] o.second = "junk"  -> <<"\n">> \o Block(<<>>, <<>>, <<"o","o","p","s">>)
                 [] OTHER              -> <<>>)
           \o (IF o.prose = "around" THEN S_thanks ELSE <<>>)

NoOrigin ==
    [kind |-> "none", body |-> [isObject |-> FALSE, obj |-> <<>>, src |-> <<>>],
     lead |-> <<>>, trail |-> <<>>, tag |-> <<>>, prose |-> "none", second |-> "none"]

ExtractInit ==
    /\ estage = "input"
    /\ origin \in Origins
    /\ text = TextOf(origin)
    /\ extracted = JsNull

CallExtract ==
    /\ estage = "input"
    /\ estage' = "output"
    /\ extracted' = extractJsonFromLLMResponse(text)
    /\ UNCHANGED <<text, origin>>
    /\ UNCHANGED <<bstage, tableName, args, limit, built>>
    /\ UNCHANGED <<pc, tool, rawOutput, json, builderCalls, executorCalls, responses>>

----------------------------------------------------------------------------
(* The tools of index.ts.  A handler runs up to its first await in one     *)
(* step and from one await to the next, or to its return, in one step.     *)

(* JSON.stringify(obj, null, 2) of an object of scalars *)
StringifyIndented(obj) ==
    LET w == Written(obj)
    IN  IF w = <<>> THEN <<"{","}">>
        ELSE <<"{","\n">>
               \o Join([i \in DOMAIN w |->
                           <<" "," ">> \o Quote(w[i].key) \o <<":"," ">>
                             \o ValueJson(w[i].value)],
                       <<",","\n">>)
               \o <<"\n","}">>

(* !json of lines 112 and 173 *)
Falsy(j) == j.t = "null"

(* the return value of lines 113-120 and 174-181 *)
ErrorResponse(raw) == [settled |-> "returned", text |-> S_errorPrefix \o raw]
TextResponse(t)    == [settled |-> "returned", text |-> t]
Rejection(error)   == [settled |-> "rejected", text |-> error]

(* a TypeError thrown outside every try: the promise of the handler        *)
(* rejects.  Lines 138 and 184 call buildSelectQuery, which index.ts:9     *)
(* imports from ./utils and utils.ts does not export; where the build      *)
(* turns the import into a property of the required module, the call       *)
(* throws.  Line 213 throws on a value that String cannot convert.         *)
TypeErrorRejection == Rejection(<<"T","y","p","e","E","r","r","o","r">>)

(* what the opaque model call may give back: completion content or "" *)
RawOutputs ==
    {TextOf(o) : o \in {x \in Origins :
        \/ x.kind = "bare" /\ x.lead = x.trail
        \/ x.kind = "fenced" /\ x.tag = S_json /\ x.prose = "before"
             /\ x.second = "none" /\ x.lead = <<"\n">>}}

(* what the opaque query executor may give back, and the message of an     *)
(* error the model call or the query executor throws                       *)
RowsTexts     == {<<"[","]">>}
ErrorMessages == {<<"q","u","o","t","a">>}

(* the limits the tool schema of line 74 admits: numbers from 1 to 30 *)
SearchLimits == {Num(<<"1">>), Num(<<"2",".","5">>), Num(<<"3","0">>)}

(* json-to-nl, lines 211-216: the text, or NoString where the template of  *)
(* line 213 throws on a value that String cannot convert                   *)
JsonToNlText(data) ==
    LET kept    == SelectSeq(data, LAMBDA e : Retained(e.value))
        entries == [i \in DOMAIN kept |-> kept[i].key \o <<":", " ">> \o kept[i].value.s]
    IN  IF \E i \in DOMAIN kept : kept[i].value.s = NoString THEN NoString
        ELSE IF Len(entries) > 0
        THEN <<"T","h","e"," ","p","r","o","v","i","d","e","d"," ","i","n",
               "f","o","r","m","a","t","i","o","n"," ","i","s"," ","a","s",
               " ","f","o","l","l","o","w","s",":","\n">>
               \o Join(entries, <<"\n">>)
               \o <<"\n","I","s"," ","t","h","i","s"," ","c","o","r","r","e","c","t","?">>
        ELSE <<"(","n","o"," ","d","a","t","a",")">>

(* objects as the tool schema of line 209 hands them over: z.record       *)
(* leaves out a member that is undefined and the key __proto__, and        *)
(* z.any() lets every value through, {"toString": 1} among them            *)
NlData ==
    {ObjectOf(a) : a \in {f \in Filters : \A i \in DOMAIN f :
                              f[i].value # Undefined /\ f[i].key # S_proto}}
      \cup { <<Entry(S_note, Composite("object", NoString))>>,
             <<Entry(S_country_name, Str(S_Japan)),
               Entry(S_note, Composite("array", NoString))>>,
             <<Entry(S_note, Composite("array", <<"1",",",",","x">>))>> }

(* get-covid-json-keys, lines 235-239: JSON.stringify of the fixed array *)
S_schemaKeys ==
    <<"[","{","\"","k","e","y","\"",":","\"","r","e","g","i","o",
        "n","\"",",","\"","t","y","p","e","\"",":","\"","s","t","r",
        "i","n","g","\"","}",",","{","\"","k","e","y","\"",":","\"",
        "d","a","t","e","\"",",","\"","t","y","p","e","\"",":","\"",
        "d","a","t","e","\"",",","\"","o","p","t","i","o","n","a","l",
        "\"",":","t","r","u","e","}",",","{","\"","k","e","y","\"",
        ":","\"","t","i","m","e","\"",",","\"","t","y","p","e","\"",
        ":","\"","t","i","m","e","\"",",","\"","o","p","t","i","o",
        "n","a","l","\"",":","t","r","u","e",",","\"","n","u","l","l",
        "a","b","l","e","\"",":","t","r","u","e","}","]">>

(* no handler has run: json is not yet bound.  builderCalls stays empty in  *)
(* every run, as no handler gets into a query builder.                     *)
FlowInit ==
    /\ pc = "idle" /\ tool = "none" /\ rawOutput = <<>>
    /\ json = [t |-> "unset", rec |-> <<>>]
    /\ builderCalls = <<>> /\ executorCalls = <<>> /\ responses = <<>>

(* where the build keeps line 9 as an import of an ECMAScript module, the  *)
(* module does not link, as ./utils has no export buildSelectQuery: the    *)
(* server does not start and no handler ever runs                          *)
LinkFails ==
    /\ pc = "idle"
    /\ pc' = "done"
    /\ UNCHANGED <<tool, rawOutput, json, builderCalls, executorCalls, responses>>
    /\ UNCHANGED <<buildVars, extractVars>>

(* parse-covid-json or nl-covid-query is called: the handler awaits        *)
(* parseCovidQuery(input), lines 109 and 170                               *)
CallTool(t) ==
    /\ pc = "idle"
    /\ tool' = t
    /\ pc' = "awaitModel"
    /\ UNCHANGED <<rawOutput, json, builderCalls, executorCalls, responses>>
    /\ UNCHANGED <<buildVars, extractVars>>

(* the model call throws: the handler has no catch around it *)
ModelThrows(message) ==
    /\ pc = "awaitModel"
    /\ pc' = "done"
    /\ responses' = Append(responses, Rejection(message))
    /\ UNCHANGED <<tool, rawOutput, json, builderCalls, executorCalls>>
    /\ UNCHANGED <<buildVars, extractVars>>

(* parse-covid-json, lines 109-130 *)
ParseModelReturns(raw) ==
    /\ pc = "awaitModel" /\ tool = "parse-covid-json"
    /\ rawOutput' = raw
    /\ json' = extractJsonFromLLMResponse(raw)
    /\ responses' = Append(responses,
                       IF Falsy(json') THEN ErrorResponse(raw)
                       ELSE TextResponse(StringifyIndented(json'.rec)))
    /\ pc' = "done"
    /\ UNCHANGED <<tool, builderCalls, executorCalls>>
    /\ UNCHANGED <<buildVars, extractVars>>

(* nl-covid-query, lines 170-184: to the return of the error response, or  *)
(* to the call of line 184, which throws                                   *)
NlModelReturns(raw) ==
    /\ pc = "awaitModel" /\ tool = "nl-covid-query"
    /\ rawOutput' = raw
    /\ json' = extractJsonFromLLMResponse(raw)
    /\ responses' = Append(responses,
                       IF Falsy(json') THEN ErrorResponse(raw) ELSE TypeErrorRejection)
    /\ pc' = "done"
    /\ UNCHANGED <<tool, builderCalls, executorCalls>>
    /\ UNCHANGED <<buildVars, extractVars>>

(* search-covid-list, lines 76-79: up to the await of bigquery.query *)
SearchCovidList(lim) ==
    /\ pc = "idle"
    /\ tool' = "search-covid-list"
    /\ executorCalls' = Append(executorCalls,
           [query |-> <<"S","E","L","E","C","T"," ","*"," ","F","R","O","M"," ",BT>>
                        \o S_covidTable \o <<BT," ","L","I","M","I","T"," ">> \o lim.s])
    /\ pc' = "awaitQuery"
    /\ UNCHANGED <<rawOutput, json, builderCalls, responses>>
    /\ UNCHANGED <<buildVars, extractVars>>

(* query-covid-data, lines 137-138: the call of line 138 throws, whatever   *)
(* the arguments                                                           *)
QueryCovidData ==
    /\ pc = "idle"
    /\ tool' = "query-covid-data"
    /\ responses' = Append(responses, TypeErrorRejection)
    /\ pc' = "done"
    /\ UNCHANGED <<rawOutput, json, builderCalls, executorCalls>>
    /\ UNCHANGED <<buildVars, extractVars>>

(* json-to-nl, lines 211-225: no try stands around the template of line    *)
(* 213, so where it throws the promise of the handler rejects              *)
JsonToNl(data) ==
    /\ pc = "idle"
    /\ tool' = "json-to-nl"
    /\ responses' = Append(responses,
                       IF JsonToNlText(data) = NoString
                       THEN TypeErrorRejection
                       ELSE TextResponse(JsonToNlText(data)))
    /\ pc' = "done"
    /\ UNCHANGED <<rawOutput, json, builderCalls, executorCalls>>
    /\ UNCHANGED <<buildVars, extractVars>>

(* get-covid-json-keys, lines 234-246 *)
GetCovidJsonKeys ==
    /\ pc = "idle"
    /\ tool' = "get-covid-json-keys"
    /\ responses' = Append(responses, TextResponse(S_schemaKeys))
    /\ pc' = "done"
    /\ UNCHANGED <<rawOutput, json, builderCalls, executorCalls>>
    /\ UNCHANGED <<buildVars, extractVars>>

(* the query of search-covid-list returns: lines 79-88 *)
QueryReturns(rows) ==
    /\ pc = "awaitQuery"
    /\ responses' = Append(responses, TextResponse(rows))
    /\ pc' = "done"
    /\ UNCHANGED <<tool, rawOutput, json, builderCalls, executorCalls>>
    /\ UNCHANGED <<buildVars, extractVars>>

(* the query of search-covid-list throws: lines 89-97 *)
QueryThrows(message) ==
    /\ pc = "awaitQuery"
    /\ responses' = Append(responses,
                       TextResponse(<<"[","E","R","R","O","R","]"," ">> \o message))
    /\ pc' = "done"
    /\ UNCHANGED <<tool, rawOutput, json, builderCalls, executorCalls>>
    /\ UNCHANGED <<buildVars, extractVars>>

----------------------------------------------------------------------------
(* The specifications: one per operation, the others' variables idle.     *)

IdleExtract ==
    /\ estage = "idle" /\ text = <<>> /\ origin = NoOrigin /\ extracted = JsNull

SpecBuildInit == BuildInit /\ IdleExtract /\ FlowInit
SpecBuildNext == CallBuildQuery
SpecBuild == SpecBuildInit /\ [][SpecBuildNext]_vars

IdleBuild ==
    /\ bstage = "idle" /\ tableName = <<>> /\ args = <<>> /\ limit = Undefined
    /\ built = NoBuilt

SpecExtractInit == ExtractInit /\ IdleBuild /\ FlowInit
SpecExtractNext == CallExtract
SpecExtract == SpecExtractInit /\ [][SpecExtractNext]_vars

SpecFlowInit == FlowInit /\ IdleBuild /\ IdleExtract
SpecFlowNext ==
    \/ LinkFails
    \/ \E t \in {"nl-covid-query", "parse-covid-json"} : CallTool(t)
    \/ \E message \in ErrorMessages : ModelThrows(message)
    \/ \E raw \in RawOutputs : ParseModelReturns(raw)
    \/ \E raw \in RawOutputs : NlModelReturns(raw)
    \/ \E lim \in SearchLimits : SearchCovidList(lim)
    \/ QueryCovidData
    \/ \E data \in NlData : JsonToNl(data)
    \/ GetCovidJsonKeys
    \/ \E rows \in RowsTexts : QueryReturns(rows)
    \/ \E message \in ErrorMessages : QueryThrows(message)
SpecFlow == SpecFlowInit /\ [][SpecFlowNext]_vars

----------------------------------------------------------------------------
(* Properties of buildQuery, checked under SpecBuild.                      *)

Blank(v) == v.t \in {"null", "undefined"} \/ (v.t = "string" /\ v.s = <<>>)

NotBlankEntry(e) == ~Blank(e.value)
Kept(a) == SelectSeq(a, NotBlankEntry)

(* the names that follow an @ in a query text, in order *)
NameFrom(q, i) ==
    LET stops == {j \in i..Len(q) : q[j] = " "}
        stop  == IF stops = {} THEN Len(q) + 1
                 ELSE CHOOSE j \in stops : \A k \in stops : j <= k
    IN  SubSeq(q, i, stop - 1)
Placeholders(q) ==
    LET at == {i \in 1..Len(q) : q[i] = "@"}
    IN  [n \in 1..Cardinality(at) |->
            NameFrom(q, 1 + CHOOSE i \in at : Cardinality({j \in at : j < i}) = n - 1)]

(* C1: a key whose value is null, undefined or the empty string appears    *)
(* neither among the WHERE predicates of the returned query nor as a key   *)
(* of the returned parameters; every other key (0 and false included)      *)
(* appears in both.  The assignment of line 27 under the key __proto__     *)
(* creates no property, so that key, with a retained value, is in the      *)
(* WHERE clause and not among the parameters.                              *)
C1_BlankKeysExcluded ==
    bstage = "output" =>
        \A i \in DOMAIN args :
            LET k == args[i].key
                pred == k \o <<" ","="," ","@">> \o k
            IN  IF Blank(args[i].value)
                THEN /\ ~Contains(built.query, pred)
                     /\ ~HasKey(built.params, k)
                ELSE /\ Contains(built.query, pred)
                     /\ HasKey(built.params, k)

Q_plain5 ==
    <<"S","E","L","E","C","T"," ","*"," ","F","R","O","M"," ","t",".","t","a","b",
      "l","e"," ","L","I","M","I","T"," ","5">>
Q_plainJapan10 ==
    <<"S","E","L","E","C","T"," ","*"," ","F","R","O","M"," ","t",".","t","a","b",
      "l","e"," ","W","H","E","R","E"," ">> \o S_country_name
      \o <<" ","="," ","@">> \o S_country_name \o <<" ","L","I","M","I","T"," ","1","0">>
Q_quoted5 ==
    <<"S","E","L","E","C","T"," ","*"," ","F","R","O","M"," ",BT,"t",".","t","a","b",
      "l","e",BT," "," ","L","I","M","I","T"," ","5">>
Q_quotedJapan10 ==
    <<"S","E","L","E","C","T"," ","*"," ","F","R","O","M"," ",BT,"t",".","t","a","b",
      "l","e",BT," ","W","H","E","R","E"," ">> \o S_country_name
      \o <<" ","="," ","@">> \o S_country_name \o <<" ","L","I","M","I","T"," ","1","0">>

IsEmptyCall ==
    /\ bstage = "output" /\ tableName = S_tTable /\ args = <<>> /\ limit = Undefined
IsJapanCall ==
    /\ bstage = "output" /\ tableName = S_tTable /\ limit = Num(<<"1","0">>)
    /\ args = <<Entry(S_country_name, Str(S_Japan)), Entry(S_date, Null)>>

(* C6 as stated: build("t.table", {}) yields SELECT * FROM t.table LIMIT 5 *)
(* with no parameters, and build("t.table", {country_name: "Japan",        *)
(* date: null}, 10) yields SELECT * FROM t.table WHERE country_name =      *)
(* @country_name LIMIT 10 with parameters {country_name: "Japan"}.         *)
C6_Original ==
    /\ IsEmptyCall => built.query = Q_plain5 /\ built.params = <<>>
    /\ IsJapanCall => /\ built.query = Q_plainJapan10
                      /\ built.params = <<Entry(S_country_name, Str(S_Japan))>>

(* C6 amended: the table identifier is emitted between grave accents and   *)
(* the WHERE clause sits between two single spaces, so an empty filter     *)
(* leaves two spaces before LIMIT; the limit defaults to 5.                *)
C6_QuotedTemplate ==
    /\ IsEmptyCall => built.query = Q_quoted5 /\ built.params = <<>>
    /\ IsJapanCall => /\ built.query = Q_quotedJapan10
                      /\ built.params = <<Entry(S_country_name, Str(S_Japan))>>

C6_Witness == IsJapanCall /\ built.query = Q_quotedJapan10

(* every way of giving the retained entries of a other non-blank values *)
NonBlankValues == {v \in FilterValues : ~Blank(v)}
Variants(a) ==
    {[i \in DOMAIN a |-> IF Blank(a[i].value) THEN a[i] ELSE Entry(a[i].key, f[i])] :
        f \in [DOMAIN a -> NonBlankValues]}

(* C7: the template does not depend on any filter value (filters with the  *)
(* same retained keys in the same order and other values give the same     *)
(* template), and each retained value reaches the result through the       *)
(* parameter mapping and only through it: it is bound under its key,       *)
(* unchanged, and every binding is an entry of the filter.  The template   *)
(* part holds; a value retained under the key __proto__ is not bound.      *)
C7_ValuesOnlyThroughParams ==
    bstage = "output" =>
        /\ \A a2 \in Variants(args) :
              buildQuery(tableName, ObjectOf(a2), limit).query = built.query
        /\ \A i \in DOMAIN args :
              ~Blank(args[i].value) =>
                  /\ HasKey(built.params, args[i].key)
                  /\ Get(built.params, args[i].key) = args[i].value
        /\ \A i \in DOMAIN built.params :
              \E j \in DOMAIN args : args[j] = built.params[i]

(* C10: one predicate key = @key per retained key, in the insertion order  *)
(* of the filter mapping, joined by AND, and the parameters are exactly    *)
(* those keys bound to the original values.  The key __proto__ leaves a    *)
(* placeholder @__proto__ that no parameter binds; apart from that,        *)
(* Object.entries puts array-index keys first, in ascending order.         *)
C10_Original ==
    bstage = "output" =>
        LET kept  == Kept(args)
            preds == [i \in DOMAIN kept |->
                         kept[i].key \o <<" ","="," ","@">> \o kept[i].key]
        IN  /\ built.params = kept
            /\ Placeholders(built.query) = Keys(built.params)
            /\ IF kept = <<>>
               THEN ~Contains(built.query, <<"W","H","E","R","E">>)
               ELSE Contains(built.query,
                        <<" ","W","H","E","R","E"," ">>
                          \o Join(preds, <<" ","A","N","D"," ">>)
                          \o <<" ","L","I","M","I","T"," ">>)

----------------------------------------------------------------------------
(* Properties of extractJsonFromLLMResponse, checked under SpecExtract.    *)
(* What a text holds is read off the way it was put together (origin),     *)
(* not off the extractor.                                                  *)

IsIsoDate(s) ==
    /\ Len(s) = 10
    /\ \A i \in 1..10 : IF i \in {5, 8} THEN s[i] = "-" ELSE s[i] \in Digits

(* every present schema field of the object satisfies its constraint *)
SchemaValidObject(o) ==
    \A i \in DOMAIN o :
        /\ o[i].key = S_country_name => o[i].value.t = "string"
        /\ o[i].key \in {S_latitude, S_longitude} => o[i].value.t = "number"
        /\ o[i].key = S_date => o[i].value.t = "string" /\ IsIsoDate(o[i].value.s)

IsSchemaField(e) == e.key \in {S_country_name, S_latitude, S_longitude, S_date}
ToSet(q) == {q[i] : i \in DOMAIN q}

(* the result is the validated record of the object o *)
IsRecordOf(result, o) ==
    /\ result.t = "object"
    /\ ToSet(result.rec) = ToSet(SelectSeq(o, IsSchemaField))
    /\ Len(result.rec) = Len(SelectSeq(o, IsSchemaField))

BodyValid(o)     == o.body.isObject /\ SchemaValidObject(o.body.obj)
BodyInvalid(o)   == o.body.isObject /\ ~SchemaValidObject(o.body.obj)
HasInnerFence(o) ==
    \E i \in DOMAIN o.body.obj :
        o.body.obj[i].value.t = "string" /\ Contains(o.body.obj[i].value.s, S_fence)
HasInnerBlock(o) ==
    \E i \in DOMAIN o.body.obj : o.body.obj[i].value = Str(S_fencedEmpty)

(* the first stage succeeds: the whole text is one schema-valid object *)
DirectlyValid(o) == o.kind = "bare" /\ BodyValid(o)

(* the text has a first fenced block, and what lies between its fences:    *)
(* "body" the whole body, "cut" a body cut short by a fence inside one of  *)
(* its strings, "empty" the object {} quoted inside a string of a bare body *)
FirstBlock(o) ==
    IF o.kind = "fenced" THEN (IF HasInnerFence(o) THEN "cut" ELSE "body")
    ELSE IF HasInnerBlock(o) THEN "empty"
    ELSE "none"

FirstBlockValid(o) ==
    \/ FirstBlock(o) = "empty"
    \/ FirstBlock(o) = "body" /\ BodyValid(o)

(* the conditions under which extraction fails *)
ExpectFailure(o) == ~DirectlyValid(o) /\ ~FirstBlockValid(o)

(* the texts a result carries: a failure value would carry one; null and a *)
(* record carry none                                                       *)
Carried(result) == IF result.t = "failure" THEN {result.text} ELSE {}

(* C2 as stated: whenever extraction fails, the result is a failure value  *)
(* that carries exactly the original input text.                           *)
C2_Original ==
    (estage = "output" /\ ExpectFailure(origin)) => Carried(extracted) = {text}

(* C2 amended: whenever extraction fails, the result is null, which        *)
(* carries no text; the input text is left as it was with the caller.      *)
C2_FailureIsNull ==
    (estage = "output" /\ ExpectFailure(origin)) =>
        /\ extracted = JsNull
        /\ Carried(extracted) = {}
        /\ text = TextOf(origin)

C2_Witness ==
    /\ estage = "output"
    /\ origin.kind = "fenced" /\ BodyInvalid(origin) /\ ~HasInnerFence(origin)
    /\ ExpectFailure(origin)
    /\ extracted = JsNull

(* C3: a schema-valid object (strings holding three grave accents          *)
(* included) stringified into a fenced block, with or without the tag json *)
(* and with or without prose around it, extracts to its validated record.  *)
C3_FencedRoundTrip ==
    (estage = "output" /\ origin.kind = "fenced" /\ BodyValid(origin)) =>
        IsRecordOf(extracted, origin.body.obj)

(* C4: a schema-valid object stringified with nothing but white space      *)
(* around it extracts to its validated record: the schema fields present,  *)
(* with their values, extra fields dropped.                                *)
C4_BareRoundTrip ==
    (estage = "output" /\ origin.kind = "bare" /\ BodyValid(origin)) =>
        IsRecordOf(extracted, origin.body.obj)

C4_Witness ==
    /\ estage = "output"
    /\ origin.kind = "bare" /\ BodyValid(origin)
    /\ origin.lead # <<>> /\ origin.trail # <<>>
    /\ HasKey(origin.body.obj, S_note)
    /\ HasKey(origin.body.obj, S_date)
    /\ extracted = JsObject(<<Entry(S_date, Str(S_isoDate))>>)

(* C5: an object, bare or in the first fenced block, with a present field  *)
(* that violates its constraint makes extraction fail, never yield a       *)
(* record; absent fields never make it fail.                               *)
C5_AllOrNothing ==
    estage = "output" =>
        /\ BodyInvalid(origin) => extracted = JsNull
        /\ (origin.kind = "bare" /\ BodyValid(origin)) => extracted.t = "object"

(* C9: the second stage runs whenever the first fails, and looks at the    *)
(* first fenced block only: its record if that block is schema-valid JSON, *)
(* failure if it is not, whatever later blocks hold.                       *)
C9_FirstBlockWins ==
    estage = "output" =>
        IF DirectlyValid(origin) THEN IsRecordOf(extracted, origin.body.obj)
        ELSE IF FirstBlock(origin) = "body" /\ BodyValid(origin)
             THEN IsRecordOf(extracted, origin.body.obj)
        ELSE IF FirstBlock(origin) = "empty" THEN extracted = JsObject(<<>>)
        ELSE extracted = JsNull

C9_Witness ==
    /\ estage = "output"
    /\ origin.kind = "fenced" /\ origin.second = "valid"
    /\ BodyInvalid(origin) /\ ~HasInnerFence(origin)
    /\ extracted = JsNull

----------------------------------------------------------------------------
(* Properties of the tool handlers, checked under SpecFlow.                *)

(* C8: in nl-covid-query a failed extraction (json is null) ends the run   *)
(* with exactly one error response whose text holds the raw model text     *)
(* verbatim, the query builder and the query executor not invoked; after   *)
(* a successful extraction the flow goes on to build and then to the query *)
(* executor, which is invoked with the query and the parameters built from *)
(* the validated record, and is invoked in no other case.  The call of     *)
(* line 184 throws instead, so after a successful extraction the run ends  *)
(* rejected, nothing built and the executor not invoked.                   *)
C8_QueryFollowsExtraction ==
    tool = "nl-covid-query" =>
        /\ json = JsNull =>
              /\ pc = "done"
              /\ Len(responses) = 1
              /\ responses[1].settled = "returned"
              /\ HasAt(responses[1].text, 1, <<"[","E","R","R","O","R","]">>)
              /\ HasAt(responses[1].text,
                       Len(responses[1].text) - Len(rawOutput) + 1, rawOutput)
              /\ builderCalls = <<>>
              /\ executorCalls = <<>>
        /\ executorCalls # <<>> => json.t = "object"
        /\ json.t = "object" =>
              /\ builderCalls = <<[tableName |-> S_covidTable, args |-> json.rec]>>
              /\ executorCalls =
                    <<[query  |-> buildQuery(S_covidTable, json.rec, Undefined).query,
                       params |-> buildQuery(S_covidTable, json.rec, Undefined).params]>>

=============================================================================
